---- MODULE Spec2Model ----
(***************************************************************************)
(* Safe-Tourist: the persisted schema, its row-level-security policies and *)
(* triggers (supabase/migrations), and the browser handlers that issue     *)
(* requests against them (TouristApp, AlertCenter, EmergencyModal).        *)
(*                                                                         *)
(* uuid and timestamp columns are integers >= 1 with NULL == 0; text and   *)
(* enum columns are strings with TNULL standing for SQL NULL.              *)
(***************************************************************************)
EXTENDS Integers, FiniteSets, Sequences, TLC

\* ---------------------------------------------------------------- bounds
MaxUsers == 2
MaxAlerts == 2
MaxSessions == 2
MaxNow == 2
MaxClients == 2
MaxPending == 2

\* ---------------------------------------------------------------- values
NULL == 0
TNULL == "null"
CastError == "invalid input value for enum app_role"

UserIds == 1..MaxUsers
\* auth.uid() of a request: a user id, or NULL for the anonymous key
Callers == UserIds \cup {NULL}

AppRole == {"tourist", "admin", "police"}

\* browser tabs
Clients == 1..MaxClients

VARIABLES
    authUsers,      \* auth.users: the ids of the existing accounts
    deletedUsers,   \* ids of accounts that were deleted (their tokens may still be in use)
    profiles,       \* public.profiles
    sessions,       \* public.tourist_sessions
    alerts,         \* public.emergency_alerts
    nextProfile,    \* gen_random_uuid() of the next profiles row
    nextSession,    \* gen_random_uuid() of the next tourist_sessions row
    nextAlert,      \* gen_random_uuid() of the next emergency_alerts row
    now,            \* now()
    last,           \* the request handled by the last step and its outcome
    app,            \* the browser clients: React state and requests in flight
    toast           \* the notification shown by the last step

dbVars == <<authUsers, deletedUsers, profiles, sessions, alerts,
            nextProfile, nextSession, nextAlert>>
appVars == <<app, toast>>
vars == <<authUsers, deletedUsers, profiles, sessions, alerts,
          nextProfile, nextSession, nextAlert, now, last, app, toast>>

\* ------------------------------------------------------------ SQL helpers
\* a = b in SQL: NULL on either side is not true
SqlEq(a, b) == a # NULL /\ b # NULL /\ a = b

Coalesce(a, b) == IF a # TNULL THEN a ELSE b

\* mutant: a cast that falls back to NULL instead of raising
CastAppRole_Lenient(t) == IF t \in AppRole THEN t ELSE TNULL

\* text::app_role
CastAppRole(t) ==
    IF t = TNULL THEN TNULL
    ELSE IF t \in AppRole THEN t
    ELSE CastError

\* raw_user_meta_data ->> key
NoMeta == [full_name |-> TNULL, role |-> TNULL, phone |-> TNULL,
           emergency_contact_name |-> TNULL, emergency_contact_phone |-> TNULL,
           country |-> TNULL]

Outcome(op, caller, id, arg, err, rows, meta) ==
    [op |-> op, caller |-> caller, id |-> id, arg |-> arg,
     err |-> err, rows |-> rows, meta |-> meta]

\* SELECT role FROM profiles WHERE user_id = user_uuid
get_user_role(user_uuid) ==
    IF \E p \in profiles : SqlEq(p.user_id, user_uuid)
    THEN (CHOOSE p \in profiles : SqlEq(p.user_id, user_uuid)).role
    ELSE TNULL

\* get_user_role(auth.uid()) IN ('admin', 'police')
IsElevated(caller) == get_user_role(caller) \in {"admin", "police"}

\* -------------------------------------------------------------- policies
\* "Users can view their own profile", "Admins and police can view all profiles"
ProfilesSelectPolicy(caller, row) ==
    SqlEq(caller, row.user_id) \/ IsElevated(caller)

\* mutant: admin and police may update every profile
ProfilesUpdatePolicy_ElevatedToo(caller, row) ==
    SqlEq(caller, row.user_id) \/ IsElevated(caller)

\* "Users can update their own profile"
ProfilesUpdatePolicy(caller, row) == SqlEq(caller, row.user_id)

\* "Users can insert their own profile"
ProfilesInsertCheck(caller, row) == SqlEq(caller, row.user_id)

\* mutant: admin and police may manage every session
SessionsOwnerPolicy_ElevatedToo(caller, row) ==
    SqlEq(caller, row.user_id) \/ IsElevated(caller)

\* "Users can manage their own sessions" FOR ALL
SessionsOwnerPolicy(caller, row) == SqlEq(caller, row.user_id)

\* FOR ALL, plus "Admins and police can view all sessions"
SessionsSelectPolicy(caller, row) ==
    SessionsOwnerPolicy(caller, row) \/ IsElevated(caller)

\* mutant: any signed-in caller may insert
AlertsInsertCheck_Authenticated(caller, row) == caller # NULL

\* "Users can create their own alerts"
AlertsInsertCheck(caller, row) == SqlEq(caller, row.user_id)

\* mutant: the role test written as "not a tourist", which a missing role passes
AlertsSelectPolicy_NotTourist(caller, row) ==
    SqlEq(caller, row.user_id) \/ get_user_role(caller) # "tourist"

\* "Users can view their own alerts", "Admins and police can view all alerts"
AlertsSelectPolicy(caller, row) ==
    SqlEq(caller, row.user_id) \/ IsElevated(caller)

\* mutant: the owner may update too
AlertsUpdatePolicy_OwnerToo(caller, row) ==
    IsElevated(caller) \/ SqlEq(caller, row.user_id)

\* "Admins and police can update alerts"
AlertsUpdatePolicy(caller, row) == IsElevated(caller)

\* mutant: admin and police may delete alerts
AlertsDeletePolicy_Elevated(caller, row) == IsElevated(caller)

\* no policy FOR DELETE on emergency_alerts or profiles: row-level security denies
AlertsDeletePolicy(caller, row) == FALSE
ProfilesDeletePolicy(caller, row) == FALSE

\* ----------------------------------------------------------- constraints
\* mutant: user_id declared without UNIQUE
ProfilesUserIdUnique_Off(rows) == TRUE

\* profiles.user_id UUID NOT NULL UNIQUE
ProfilesUserIdUnique(rows) ==
    \A p \in rows, q \in rows : p.user_id = q.user_id => p.id = q.id

\* profiles: user_id REFERENCES auth.users, UNIQUE, full_name and role NOT NULL
ProfilesConstraints(rows, users) ==
    /\ \A p \in rows : p.user_id \in users /\ p.full_name # TNULL /\ p.role \in AppRole
    /\ ProfilesUserIdUnique(rows)

\* tourist_sessions: user_id NOT NULL REFERENCES auth.users, is_active NOT NULL
SessionsConstraints(rows, users) ==
    \A r \in rows : r.user_id \in users /\ r.is_active \in BOOLEAN

\* emergency_alerts: user_id NOT NULL REFERENCES auth.users, alert_type NOT NULL,
\* resolved_by REFERENCES auth.users
AlertsConstraints(rows, users) ==
    \A a \in rows :
        /\ a.user_id \in users
        /\ a.alert_type # TNULL
        /\ a.resolved_by # NULL => a.resolved_by \in users

\* the columns a request names replace the row's; the others stay
ApplyPatch(row, patch) ==
    [c \in DOMAIN row |-> IF c \in DOMAIN patch THEN patch[c] ELSE row[c]]

\* mutant: no trigger, the supplied updated_at stays
update_updated_at_column_Off(new) == new

\* update_updated_at_column(): BEFORE UPDATE on profiles and tourist_sessions
update_updated_at_column(new) == [new EXCEPT !.updated_at = now]

\* ------------------------------------------------------------ statements
Failed(table) == [err |-> TRUE, rows |-> 0, table |-> table]

\* SELECT through the policies
SelectProfiles(caller) == {r \in profiles : ProfilesSelectPolicy(caller, r)}
SelectSessions(caller) == {r \in sessions : SessionsSelectPolicy(caller, r)}
SelectAlerts(caller) == {r \in alerts : AlertsSelectPolicy(caller, r)}

\* INSERT INTO emergency_alerts (no RETURNING)
AlertsInsert(caller, payload) ==
    LET row == [id |-> nextAlert,
                user_id |-> payload.user_id,
                alert_type |-> payload.alert_type,
                message |-> payload.message,
                location_lat |-> payload.location_lat,
                location_lng |-> payload.location_lng,
                status |-> payload.status,
                resolved_at |-> NULL,
                resolved_by |-> NULL,
                created_at |-> now]
    IN  IF /\ AlertsInsertCheck(caller, row)
           /\ AlertsConstraints(alerts \cup {row}, authUsers)
        THEN [err |-> FALSE, rows |-> 1, table |-> alerts \cup {row}]
        ELSE Failed(alerts)

\* UPDATE emergency_alerts SET patch on the rows the WHERE clause selects
AlertsUpdate(caller, targets, patch) ==
    LET old == {r \in alerts : r \in targets /\ AlertsSelectPolicy(caller, r)
                                        /\ AlertsUpdatePolicy(caller, r)}
        new == {ApplyPatch(r, patch) : r \in old}
        table == (alerts \ old) \cup new
    IN  IF /\ \A r \in new : AlertsUpdatePolicy(caller, r) /\ AlertsSelectPolicy(caller, r)
           /\ AlertsConstraints(table, authUsers)
        THEN [err |-> FALSE, rows |-> Cardinality(old), table |-> table]
        ELSE Failed(alerts)

\* DELETE FROM emergency_alerts on the rows the WHERE clause selects
AlertsDelete(caller, targets) ==
    LET old == {r \in alerts : r \in targets /\ AlertsSelectPolicy(caller, r)
                                        /\ AlertsDeletePolicy(caller, r)}
    IN  [err |-> FALSE, rows |-> Cardinality(old), table |-> alerts \ old]

\* mutant: tourist_sessions.user_id declared UNIQUE, so the upsert of
\* startTracking finds its conflict target
SessionsUniqueColumns_UserId == {"id", "user_id"}

\* columns of tourist_sessions that carry a unique index: the primary key only
\* (user_id is declared NOT NULL REFERENCES auth.users, without UNIQUE)
SessionsUniqueColumns == {"id"}

SessionsRow(payload) ==
    [id |-> nextSession,
     user_id |-> payload.user_id,
     is_active |-> payload.is_active,
     start_time |-> payload.start_time,
     end_time |-> NULL,
     current_location_lat |-> payload.current_location_lat,
     current_location_lng |-> payload.current_location_lng,
     safety_status |-> payload.safety_status,
     last_ping |-> payload.last_ping,
     created_at |-> now,
     updated_at |-> now]

\* INSERT INTO tourist_sessions
SessionsInsert(caller, payload) ==
    LET row == SessionsRow(payload)
    IN  IF /\ SessionsOwnerPolicy(caller, row)
           /\ SessionsConstraints(sessions \cup {row}, authUsers)
        THEN [err |-> FALSE, rows |-> 1, table |-> sessions \cup {row}]
        ELSE Failed(sessions)

\* UPDATE tourist_sessions SET patch on the rows the WHERE clause selects
SessionsUpdate(caller, targets, patch) ==
    LET old == {r \in sessions : r \in targets /\ SessionsSelectPolicy(caller, r)
                                          /\ SessionsOwnerPolicy(caller, r)}
        new == {update_updated_at_column(ApplyPatch(r, patch)) : r \in old}
        table == (sessions \ old) \cup new
    IN  IF /\ \A r \in new : SessionsOwnerPolicy(caller, r)
           /\ SessionsConstraints(table, authUsers)
        THEN [err |-> FALSE, rows |-> Cardinality(old), table |-> table]
        ELSE Failed(sessions)

\* DELETE FROM tourist_sessions on the rows the WHERE clause selects
SessionsDelete(caller, targets) ==
    LET old == {r \in sessions : r \in targets /\ SessionsSelectPolicy(caller, r)
                                          /\ SessionsOwnerPolicy(caller, r)}
    IN  [err |-> FALSE, rows |-> Cardinality(old), table |-> sessions \ old]

\* INSERT INTO tourist_sessions ... ON CONFLICT (column) DO UPDATE SET ... RETURNING *
\* The conflict target must be a column with a unique index, or the statement fails.
SessionsUpsert(caller, payload, column) ==
    IF column \notin SessionsUniqueColumns THEN Failed(sessions)
    ELSE LET hit == {r \in sessions : r[column] = payload[column]}
         IN  IF hit # {}
             THEN SessionsUpdate(caller, hit, payload)
             ELSE SessionsInsert(caller, payload)

\* INSERT INTO profiles issued by a client
ProfilesInsert(caller, payload) ==
    LET row == [id |-> nextProfile,
                user_id |-> payload.user_id,
                full_name |-> payload.full_name,
                role |-> payload.role,
                phone |-> TNULL,
                emergency_contact_name |-> TNULL,
                emergency_contact_phone |-> TNULL,
                country |-> TNULL,
                created_at |-> now,
                updated_at |-> now,
                origin |-> "client"]
    IN  IF /\ ProfilesInsertCheck(caller, row)
           /\ ProfilesConstraints(profiles \cup {row}, authUsers)
        THEN [err |-> FALSE, rows |-> 1, table |-> profiles \cup {row}]
        ELSE Failed(profiles)

\* UPDATE profiles SET patch on the rows the WHERE clause selects
ProfilesUpdate(caller, targets, patch) ==
    LET old == {r \in profiles : r \in targets /\ ProfilesSelectPolicy(caller, r)
                                          /\ ProfilesUpdatePolicy(caller, r)}
        new == {update_updated_at_column(ApplyPatch(r, patch)) : r \in old}
        table == (profiles \ old) \cup new
    IN  IF /\ \A r \in new : ProfilesUpdatePolicy(caller, r)
           /\ ProfilesConstraints(table, authUsers)
        THEN [err |-> FALSE, rows |-> Cardinality(old), table |-> table]
        ELSE Failed(profiles)

\* DELETE FROM profiles on the rows the WHERE clause selects
ProfilesDelete(caller, targets) ==
    LET old == {r \in profiles : r \in targets /\ ProfilesSelectPolicy(caller, r)
                                          /\ ProfilesDeletePolicy(caller, r)}
    IN  [err |-> FALSE, rows |-> Cardinality(old), table |-> profiles \ old]

\* --------------------------------------------------------------- triggers
\* mutant: the function as first migrated, which copies full_name and role only
handle_new_user_v1(newId, meta) ==
    [id |-> nextProfile,
     user_id |-> newId,
     full_name |-> Coalesce(meta.full_name, "User"),
     role |-> Coalesce(CastAppRole(meta.role), "tourist"),
     phone |-> TNULL,
     emergency_contact_name |-> TNULL,
     emergency_contact_phone |-> TNULL,
     country |-> TNULL,
     created_at |-> now,
     updated_at |-> now,
     origin |-> "trigger"]

\* handle_new_user(): the profiles row inserted for NEW; the cast of an invalid
\* role raises, which shows as role = CastError
handle_new_user(newId, meta) ==
    [id |-> nextProfile,
     user_id |-> newId,
     full_name |-> Coalesce(meta.full_name, "User"),
     role |-> Coalesce(CastAppRole(meta.role), "tourist"),
     phone |-> meta.phone,
     emergency_contact_name |-> meta.emergency_contact_name,
     emergency_contact_phone |-> meta.emergency_contact_phone,
     country |-> meta.country,
     created_at |-> now,
     updated_at |-> now,
     origin |-> "trigger"]

\* ------------------------------------------------------- request payloads
\* useState({ lat: 40.7128, lng: -74.0060 }), in 1/10000 degree
InitialLat == 407128
InitialLng == -740060

\* handlePanicButton: the emergency_alerts row it inserts
PanicPayload(uid) ==
    [user_id |-> uid,
     alert_type |-> "panic",
     message |-> "Emergency panic button activated",
     location_lat |-> InitialLat,
     location_lng |-> InitialLng,
     status |-> "active"]

\* mutant: the panic marks the session with the status of a zone warning
PanicSessionPatch_Alert ==
    [safety_status |-> "alert",
     current_location_lat |-> InitialLat,
     current_location_lng |-> InitialLng,
     last_ping |-> now]

\* handlePanicButton: the tourist_sessions columns it updates
PanicSessionPatch ==
    [safety_status |-> "emergency",
     current_location_lat |-> InitialLat,
     current_location_lng |-> InitialLng,
     last_ping |-> now]

\* startTracking: the row it upserts
StartPayload(uid) ==
    [user_id |-> uid,
     is_active |-> TRUE,
     start_time |-> now,
     current_location_lat |-> InitialLat,
     current_location_lng |-> InitialLng,
     safety_status |-> "safe",
     last_ping |-> now]

\* mutant: a stop that ends the session but leaves it active
StopPatch_StillActive == [is_active |-> TRUE, end_time |-> now, safety_status |-> "safe"]

\* stopTracking: the columns it updates
StopPatch == [is_active |-> FALSE, end_time |-> now, safety_status |-> "safe"]

\* the periodic ping: the columns it updates
PingPatch ==
    [last_ping |-> now,
     current_location_lat |-> InitialLat,
     current_location_lng |-> InitialLng]

\* mutant: a resolve that does not record who resolved
ResolvePatch_Anonymous(uid) ==
    [status |-> "resolved", resolved_at |-> now]

\* handleResolveAlert: the emergency_alerts columns it updates; resolved_by: user?.id
\* is left out of the request when there is no user
ResolvePatch(uid) ==
    IF uid = NULL
    THEN [status |-> "resolved", resolved_at |-> now]
    ELSE [status |-> "resolved", resolved_at |-> now, resolved_by |-> uid]

\* mutant: a response that puts the alert back to active
RespondPatch_Reopen(uid) ==
    [status |-> "active", resolved_at |-> NULL]

\* handleEmergencyResponse: the emergency_alerts columns it updates
RespondPatch(uid) ==
    IF uid = NULL
    THEN [status |-> "resolved", resolved_at |-> now]
    ELSE [status |-> "resolved", resolved_at |-> now, resolved_by |-> uid]

\* handleEmergencyResponse: the tourist_sessions columns it updates
SafePatch == [safety_status |-> "safe"]

\* columns a direct client of the REST endpoint may send in an UPDATE of
\* emergency_alerts, besides the application's own resolve request
AlertPatchNames == {"resolve", "reopen", "edit", "reassign"}

AlertPatch(name, caller) ==
    CASE name = "resolve" -> ResolvePatch(caller)
      [] name = "reopen" -> [status |-> "active", resolved_at |-> NULL, resolved_by |-> NULL]
      [] name = "edit" -> [message |-> "edited"]
      [] name = "reassign" -> [user_id |-> caller]

SessionPatchNames == {"stop", "ping", "emergency", "safe", "activate"}

SessionPatch(name) ==
    CASE name = "stop" -> StopPatch
      [] name = "ping" -> PingPatch
      [] name = "emergency" -> PanicSessionPatch
      [] name = "safe" -> SafePatch
      [] name = "activate" -> [is_active |-> TRUE]
      [] name = "postdate" -> [updated_at |-> MaxNow + 1]

ProfilePatchNames == {"promote", "rename", "reassign"}

\* "reassign" moves the row of user uid to another user id
ProfilePatch(name, uid) ==
    CASE name = "promote" -> [role |-> "admin"]
      [] name = "rename" -> [full_name |-> "Renamed"]
      [] name = "reassign" -> [user_id |-> (uid % MaxUsers) + 1]
      [] name = "postdate" -> [updated_at |-> MaxNow + 1]

\* signup metadata: a role (absent, valid or not) and a full name (absent or given)
MetaRoles == {TNULL, "tourist", "admin", "police", "superuser"}
MetaCore == {[NoMeta EXCEPT !.role = r] : r \in MetaRoles}

\* signup metadata with every combination of the optional fields
MetaOptional ==
    {[phone |-> p, emergency_contact_name |-> n, emergency_contact_phone |-> e, country |-> c] :
        p \in {TNULL, "+15550100"}, n \in {TNULL, "Kim"},
        e \in {TNULL, "+15550199"}, c \in {TNULL, "Peru"}}
MetaAll ==
    {[full_name |-> f, role |-> r, phone |-> o.phone,
      emergency_contact_name |-> o.emergency_contact_name,
      emergency_contact_phone |-> o.emergency_contact_phone,
      country |-> o.country] :
        f \in {TNULL, "Ann"}, r \in MetaRoles, o \in MetaOptional}

\* holders of a token: existing accounts, deleted accounts, the anonymous key
TokenHolders == authUsers \cup deletedUsers \cup {NULL}

\* ------------------------------------------------------------ React state
\* useToast(): no notification
NoToast == [title |-> "", variant |-> ""]

\* a tab before sign-in: useState defaults of TouristApp and of AlertCenter
\* (selectedStatus, loading), nothing in flight
SignedOut ==
    [user |-> NULL, role |-> TNULL, view |-> "", isTracking |-> FALSE,
     safetyStatus |-> "safe", session |-> NULL, tourists |-> {}, alertList |-> {},
     selectedStatus |-> "active", loading |-> TRUE, pending |-> {}]

\* useState([]) of the lists a dashboard component displays
NoLists == [tourists |-> {}, alerts |-> {}]

\* ------------------------------------------------------------------ Init
Init ==
    /\ authUsers = {}
    /\ deletedUsers = {}
    /\ profiles = {}
    /\ sessions = {}
    /\ alerts = {}
    /\ nextProfile = 1
    /\ nextSession = 1
    /\ nextAlert = 1
    /\ now = 1
    /\ last = Outcome("init", NULL, NULL, "", FALSE, 0, NoMeta)
    /\ app = [c \in Clients |-> SignedOut]
    /\ toast = NoToast

\* ------------------------------------------------- accounts (auth.users)
\* INSERT INTO auth.users, with the trigger on_auth_user_created in the same
\* transaction: an error in the trigger rolls the insert back
Signup(id, meta) ==
    /\ id \in UserIds \ (authUsers \cup deletedUsers)
    /\ LET row == handle_new_user(id, meta)
           ok == /\ row.role # CastError
                 /\ ProfilesConstraints(profiles \cup {row}, authUsers \cup {id})
       IN  IF ok
           THEN /\ authUsers' = authUsers \cup {id}
                /\ profiles' = profiles \cup {row}
                /\ nextProfile' = nextProfile + 1
                /\ last' = Outcome("signup", NULL, id, "", FALSE, 1, meta)
           ELSE /\ UNCHANGED <<authUsers, profiles, nextProfile>>
                /\ last' = Outcome("signup", NULL, id, "", TRUE, 0, meta)
    /\ UNCHANGED <<deletedUsers, sessions, alerts, nextSession, nextAlert, now>>
    /\ UNCHANGED appVars

\* mutant: emergency_alerts.resolved_by declared without a foreign key, so the
\* delete never fails
DeleteUser_Unreferenced(id) ==
    /\ id \in authUsers
    /\ authUsers' = authUsers \ {id}
    /\ deletedUsers' = deletedUsers \cup {id}
    /\ profiles' = {p \in profiles : p.user_id # id}
    /\ sessions' = {r \in sessions : r.user_id # id}
    /\ alerts' = {a \in alerts : a.user_id # id}
    /\ last' = Outcome("delete_user", NULL, id, "", FALSE, 1, NoMeta)
    /\ UNCHANGED <<nextProfile, nextSession, nextAlert, now>>
    /\ UNCHANGED appVars

\* DELETE FROM auth.users: ON DELETE CASCADE through profiles.user_id,
\* tourist_sessions.user_id and emergency_alerts.user_id; emergency_alerts.resolved_by
\* has no ON DELETE action, so a remaining reference fails the statement
DeleteUser(id) ==
    /\ id \in authUsers
    /\ LET kept == {a \in alerts : a.user_id # id}
       IN  IF \A a \in kept : a.resolved_by # id
           THEN /\ authUsers' = authUsers \ {id}
                /\ deletedUsers' = deletedUsers \cup {id}
                /\ profiles' = {p \in profiles : p.user_id # id}
                /\ sessions' = {r \in sessions : r.user_id # id}
                /\ alerts' = kept
                /\ last' = Outcome("delete_user", NULL, id, "", FALSE, 1, NoMeta)
           ELSE /\ UNCHANGED <<authUsers, deletedUsers, profiles, sessions, alerts>>
                /\ last' = Outcome("delete_user", NULL, id, "", TRUE, 0, NoMeta)
    /\ UNCHANGED <<nextProfile, nextSession, nextAlert, now>>
    /\ UNCHANGED appVars

\* time passes
Tick ==
    /\ now < MaxNow
    /\ now' = now + 1
    /\ last' = Outcome("tick", NULL, NULL, "", FALSE, 0, NoMeta)
    /\ UNCHANGED dbVars
    /\ UNCHANGED appVars

\* ------------------------------- requests of a direct client of the REST API
\* mutant: the dashboards subscribe to emergency_alerts and add a new row to the
\* list they display as soon as it is inserted
InsertAlert_Realtime(caller, uid) ==
    /\ nextAlert <= MaxAlerts
    /\ LET res == AlertsInsert(caller, PanicPayload(uid))
       IN  /\ alerts' = res.table
           /\ nextAlert' = IF res.err THEN nextAlert ELSE nextAlert + 1
           /\ last' = Outcome("insert_alert", caller, uid, "", res.err, res.rows, NoMeta)
           /\ app' = [c \in Clients |->
                         IF ~res.err /\ app[c].role \in {"admin", "police"}
                         THEN [app[c] EXCEPT !.alertList =
                                   @ \cup {[id |-> nextAlert, user_id |-> uid,
                                            status |-> "active"]}]
                         ELSE app[c]]
    /\ UNCHANGED <<authUsers, deletedUsers, profiles, sessions, nextProfile, nextSession, now>>
    /\ UNCHANGED toast

InsertAlert(caller, uid) ==
    /\ nextAlert <= MaxAlerts
    /\ LET res == AlertsInsert(caller, PanicPayload(uid))
       IN  /\ alerts' = res.table
           /\ nextAlert' = IF res.err THEN nextAlert ELSE nextAlert + 1
           /\ last' = Outcome("insert_alert", caller, uid, "", res.err, res.rows, NoMeta)
    /\ UNCHANGED <<authUsers, deletedUsers, profiles, sessions, nextProfile, nextSession, now>>
    /\ UNCHANGED appVars

UpdateAlert(caller, id, name) ==
    /\ \E a \in alerts : a.id = id
    /\ LET res == AlertsUpdate(caller, {r \in alerts : r.id = id}, AlertPatch(name, caller))
       IN  /\ alerts' = res.table
           /\ last' = Outcome("update_alert", caller, id, name, res.err, res.rows, NoMeta)
    /\ UNCHANGED <<authUsers, deletedUsers, profiles, sessions,
                   nextProfile, nextSession, nextAlert, now>>
    /\ UNCHANGED appVars

DeleteAlert(caller, id) ==
    /\ \E a \in alerts : a.id = id
    /\ LET res == AlertsDelete(caller, {r \in alerts : r.id = id})
       IN  /\ alerts' = res.table
           /\ last' = Outcome("delete_alert", caller, id, "", res.err, res.rows, NoMeta)
    /\ UNCHANGED <<authUsers, deletedUsers, profiles, sessions,
                   nextProfile, nextSession, nextAlert, now>>
    /\ UNCHANGED appVars

InsertSession(caller, uid) ==
    /\ nextSession <= MaxSessions
    /\ LET res == SessionsInsert(caller, StartPayload(uid))
       IN  /\ sessions' = res.table
           /\ nextSession' = IF res.err THEN nextSession ELSE nextSession + 1
           /\ last' = Outcome("insert_session", caller, uid, "", res.err, res.rows, NoMeta)
    /\ UNCHANGED <<authUsers, deletedUsers, profiles, alerts, nextProfile, nextAlert, now>>
    /\ UNCHANGED appVars

UpdateSession(caller, id, name) ==
    /\ \E r \in sessions : r.id = id
    /\ LET res == SessionsUpdate(caller, {r \in sessions : r.id = id}, SessionPatch(name))
       IN  /\ sessions' = res.table
           /\ last' = Outcome("update_session", caller, id, name, res.err, res.rows, NoMeta)
    /\ UNCHANGED <<authUsers, deletedUsers, profiles, alerts,
                   nextProfile, nextSession, nextAlert, now>>
    /\ UNCHANGED appVars

DeleteSession(caller, id) ==
    /\ \E r \in sessions : r.id = id
    /\ LET res == SessionsDelete(caller, {r \in sessions : r.id = id})
       IN  /\ sessions' = res.table
           /\ last' = Outcome("delete_session", caller, id, "", res.err, res.rows, NoMeta)
    /\ UNCHANGED <<authUsers, deletedUsers, profiles, alerts,
                   nextProfile, nextSession, nextAlert, now>>
    /\ UNCHANGED appVars

InsertProfile(caller, uid, role) ==
    /\ LET res == ProfilesInsert(caller, [user_id |-> uid, full_name |-> "User", role |-> role])
       IN  /\ profiles' = res.table
           /\ nextProfile' = IF res.err THEN nextProfile ELSE nextProfile + 1
           /\ last' = Outcome("insert_profile", caller, uid, role, res.err, res.rows, NoMeta)
    /\ UNCHANGED <<authUsers, deletedUsers, sessions, alerts, nextSession, nextAlert, now>>
    /\ UNCHANGED appVars

UpdateProfile(caller, uid, name) ==
    /\ \E p \in profiles : p.user_id = uid
    /\ LET res == ProfilesUpdate(caller, {r \in profiles : r.user_id = uid}, ProfilePatch(name, uid))
       IN  /\ profiles' = res.table
           /\ last' = Outcome("update_profile", caller, uid, name, res.err, res.rows, NoMeta)
    /\ UNCHANGED <<authUsers, deletedUsers, sessions, alerts,
                   nextProfile, nextSession, nextAlert, now>>
    /\ UNCHANGED appVars

DeleteProfile(caller, uid) ==
    /\ \E p \in profiles : p.user_id = uid
    /\ LET res == ProfilesDelete(caller, {r \in profiles : r.user_id = uid})
       IN  /\ profiles' = res.table
           /\ last' = Outcome("delete_profile", caller, uid, "", res.err, res.rows, NoMeta)
    /\ UNCHANGED <<authUsers, deletedUsers, sessions, alerts,
                   nextProfile, nextSession, nextAlert, now>>
    /\ UNCHANGED appVars

\* ------------------------------------------------------ the React components
\* A handler runs up to its next await in one step; the request it awaits is then
\* in flight, recorded in the tab's pending set with what the closure captured:
\* the kind of request k, the session id, the alert id, the alert's owner, the
\* safetyStatus of the render that created the callback, and the time at which
\* new Date() was read. A load also holds the rows its earlier selects returned
\* (data) and, for reference, the lists displayed when it started (seen); what
\* AlertCenter sends also holds the selectedStatus of the render it comes from.
Cont(k, sid, aid, owner, ss) ==
    [k |-> k, sid |-> sid, aid |-> aid, owner |-> owner, ss |-> ss, at |-> now,
     data |-> {}, seen |-> NoLists, filter |-> ""]

ContLoad(k, data, seen) ==
    [Cont(k, NULL, NULL, NULL, "") EXCEPT !.data = data, !.seen = seen]

\* AlertCenter.loadAlerts up to the await of its query
ContAlerts(selectedStatus, seen) ==
    [ContLoad("loadAlerts", {}, seen) EXCEPT !.filter = selectedStatus]

\* toast({ title, variant })
Toast(title, variant) == [title |-> title, variant |-> variant]

\* new Date().toISOString() is read when the request is built, not when it is served
TimeColumns == {"start_time", "end_time", "last_ping", "resolved_at"}
WithTime(patch, t) ==
    [c \in DOMAIN patch |-> IF c \in TimeColumns THEN t ELSE patch[c]]

\* the fields of an emergency_alerts row that the dashboard handlers use
AlertItem(a) == [id |-> a.id, user_id |-> a.user_id, status |-> a.status]

\* the status of the alert with this id when the request arrives, "" if there is none
StatusOf(aid) ==
    IF \E a \in alerts : a.id = aid
    THEN (CHOOSE a \in alerts : a.id = aid).status
    ELSE ""

\* the tab c with one more request in flight / with p answered
Sent(st, p) == [st EXCEPT !.pending = @ \cup {p}]
Answered(st, p) == [st EXCEPT !.pending = @ \ {p}]

\* a tab can take another request
CanSend(c) == Cardinality(app[c].pending) < MaxPending

\* Index: the signed-in user's profile decides which component is mounted; the
\* mount effects of TouristApp (loadSession) and AlertCenter (loadAlerts) run
OpenApp(c, u) ==
    /\ app[c].user = NULL
    /\ u \in authUsers
    /\ LET role == get_user_role(u)
           first == IF role = "tourist" THEN {Cont("loadSession", NULL, NULL, NULL, "")}
                    ELSE IF role \in {"admin", "police"}
                         THEN {ContAlerts(SignedOut.selectedStatus, NoLists)}
                         ELSE {}
           view == IF role = "tourist" THEN "TouristApp"
                   ELSE IF role \in {"admin", "police"} THEN "AlertCenter"
                   ELSE ""
       IN  app' = [app EXCEPT ![c] = [SignedOut EXCEPT !.user = u, !.role = role,
                                                       !.view = view,
                                                       !.pending = first]]
    /\ toast' = NoToast
    /\ last' = Outcome("open", u, c, "", FALSE, 0, NoMeta)
    /\ UNCHANGED dbVars
    /\ UNCHANGED now

\* TouristApp.loadSession, from the answer of the select on
LoadSession(c, p, ok) ==
    /\ p \in app[c].pending /\ p.k = "loadSession"
    /\ LET u == app[c].user
           rows == {r \in SelectSessions(u) : r.user_id = u /\ r.is_active}
           st == Answered(app[c], p)
       IN  /\ IF ok /\ Cardinality(rows) = 1
              THEN LET data == CHOOSE r \in rows : TRUE
                   IN  app' = [app EXCEPT ![c] =
                           [st EXCEPT !.session = data.id,
                                      !.isTracking = TRUE,
                                      !.safetyStatus =
                                          IF data.safety_status = "emergency" THEN "danger"
                                          ELSE IF data.safety_status = "alert" THEN "warning"
                                          ELSE "safe"]]
              ELSE app' = [app EXCEPT ![c] = st]
           /\ last' = Outcome("loadSession", u, c, "", ~ok, Cardinality(rows), NoMeta)
    /\ toast' = NoToast
    /\ UNCHANGED dbVars
    /\ UNCHANGED now

\* TouristApp.startTracking up to the await
ClickStart(c) ==
    /\ app[c].role = "tourist" /\ app[c].user # NULL
    /\ ~app[c].isTracking
    /\ CanSend(c)
    /\ app' = [app EXCEPT ![c] = Sent(@, Cont("startTracking", NULL, NULL, NULL, ""))]
    /\ toast' = NoToast
    /\ last' = Outcome("click_start", app[c].user, c, "", FALSE, 0, NoMeta)
    /\ UNCHANGED dbVars
    /\ UNCHANGED now

\* TouristApp.startTracking: the upsert is served and the handler resumes
StartTracking(c, p, ok) ==
    /\ p \in app[c].pending /\ p.k = "startTracking"
    /\ LET u == app[c].user
           res == IF ok THEN SessionsUpsert(u, WithTime(StartPayload(u), p.at), "user_id")
                        ELSE Failed(sessions)
           inserted == Cardinality(res.table) > Cardinality(sessions)
           st == Answered(app[c], p)
       IN  /\ inserted => nextSession <= MaxSessions
           /\ sessions' = res.table
           /\ nextSession' = IF inserted THEN nextSession + 1 ELSE nextSession
           /\ IF res.err
              THEN /\ app' = [app EXCEPT ![c] = st]
                   /\ toast' = Toast("Error", "destructive")
              ELSE LET data == CHOOSE r \in res.table : r.user_id = u
                   IN  /\ app' = [app EXCEPT ![c] =
                               [st EXCEPT !.session = data.id, !.isTracking = TRUE]]
                       /\ toast' = Toast("Location Tracking Started", "default")
           /\ last' = Outcome("startTracking", u, c, "", res.err, res.rows, NoMeta)
    /\ UNCHANGED <<authUsers, deletedUsers, profiles, alerts, nextProfile, nextAlert, now>>

\* TouristApp.stopTracking up to the await
ClickStop(c) ==
    /\ app[c].role = "tourist" /\ app[c].user # NULL
    /\ app[c].isTracking /\ app[c].session # NULL
    /\ CanSend(c)
    /\ app' = [app EXCEPT ![c] = Sent(@, Cont("stopTracking", app[c].session, NULL, NULL, ""))]
    /\ toast' = NoToast
    /\ last' = Outcome("click_stop", app[c].user, c, "", FALSE, 0, NoMeta)
    /\ UNCHANGED dbVars
    /\ UNCHANGED now

\* TouristApp.stopTracking: the update is served and the handler resumes
StopTracking(c, p, ok) ==
    /\ p \in app[c].pending /\ p.k = "stopTracking"
    /\ LET u == app[c].user
           res == IF ok THEN SessionsUpdate(u, {r \in sessions : r.id = p.sid},
                                            WithTime(StopPatch, p.at))
                        ELSE Failed(sessions)
           st == Answered(app[c], p)
       IN  /\ sessions' = res.table
           /\ IF res.err
              THEN /\ app' = [app EXCEPT ![c] = st]
                   /\ toast' = Toast("Error", "destructive")
              ELSE /\ app' = [app EXCEPT ![c] =
                           [st EXCEPT !.isTracking = FALSE, !.safetyStatus = "safe",
                                      !.session = NULL]]
                   /\ toast' = Toast("Tracking Stopped", "default")
           /\ last' = Outcome("stopTracking", u, p.sid, "", res.err, res.rows, NoMeta)
    /\ UNCHANGED <<authUsers, deletedUsers, profiles, alerts,
                   nextProfile, nextSession, nextAlert, now>>

\* TouristApp.handlePanicButton up to the await of the insert
ClickPanic(c) ==
    /\ app[c].role = "tourist" /\ app[c].user # NULL
    /\ app[c].safetyStatus # "danger"
    /\ CanSend(c)
    /\ app' = [app EXCEPT ![c] =
                   Sent([@ EXCEPT !.safetyStatus = "danger"],
                        Cont("panicInsert", app[c].session, NULL, NULL, ""))]
    /\ toast' = NoToast
    /\ last' = Outcome("click_panic", app[c].user, c, "", FALSE, 0, NoMeta)
    /\ UNCHANGED dbVars
    /\ UNCHANGED now

\* TouristApp.handlePanicButton: the insert is served; the handler resumes up to
\* the await of the session update, or to its end when it holds no session
PanicInsert(c, p, ok) ==
    /\ p \in app[c].pending /\ p.k = "panicInsert"
    /\ ok => nextAlert <= MaxAlerts
    /\ LET u == app[c].user
           res == IF ok THEN AlertsInsert(u, PanicPayload(u)) ELSE Failed(alerts)
           st == Answered(app[c], p)
       IN  /\ alerts' = res.table
           /\ nextAlert' = IF res.err THEN nextAlert ELSE nextAlert + 1
           /\ IF res.err
              THEN /\ app' = [app EXCEPT ![c] = st]
                   /\ toast' = Toast("Error", "destructive")
              ELSE IF p.sid # NULL
                   THEN /\ app' = [app EXCEPT ![c] =
                                Sent(st, Cont("panicUpdate", p.sid, NULL, NULL, ""))]
                        /\ toast' = NoToast
                   ELSE /\ app' = [app EXCEPT ![c] = st]
                        /\ toast' = Toast("Emergency Alert Sent", "destructive")
           /\ last' = Outcome("panicInsert", u, nextAlert, "", res.err, res.rows, NoMeta)
    /\ UNCHANGED <<authUsers, deletedUsers, profiles, sessions,
                   nextProfile, nextSession, now>>

\* TouristApp.handlePanicButton: the session update is served, its result is not read
PanicUpdate(c, p, ok) ==
    /\ p \in app[c].pending /\ p.k = "panicUpdate"
    /\ LET u == app[c].user
           res == IF ok THEN SessionsUpdate(u, {r \in sessions : r.id = p.sid},
                                            WithTime(PanicSessionPatch, p.at))
                        ELSE Failed(sessions)
       IN  /\ sessions' = res.table
           /\ last' = Outcome("panicUpdate", u, p.sid, "", res.err, res.rows, NoMeta)
    /\ app' = [app EXCEPT ![c] = Answered(@, p)]
    /\ toast' = Toast("Emergency Alert Sent", "destructive")
    /\ UNCHANGED <<authUsers, deletedUsers, profiles, alerts,
                   nextProfile, nextSession, nextAlert, now>>

\* the interval callback of TouristApp up to its await
PingTick(c) ==
    /\ app[c].isTracking /\ app[c].session # NULL
    /\ CanSend(c)
    /\ app' = [app EXCEPT ![c] =
                   Sent(@, Cont("ping", app[c].session, NULL, NULL, app[c].safetyStatus))]
    /\ toast' = NoToast
    /\ last' = Outcome("ping_tick", app[c].user, c, "", FALSE, 0, NoMeta)
    /\ UNCHANGED dbVars
    /\ UNCHANGED now

\* the interval callback: the update is served, its result is not read, and the
\* zone drawn at random is shown unless the callback's safetyStatus is danger
Ping(c, p, ok, randomScenario) ==
    /\ p \in app[c].pending /\ p.k = "ping"
    /\ LET u == app[c].user
           res == IF ok THEN SessionsUpdate(u, {r \in sessions : r.id = p.sid},
                                            WithTime(PingPatch, p.at))
                        ELSE Failed(sessions)
           st == Answered(app[c], p)
       IN  /\ sessions' = res.table
           /\ IF p.ss # "danger"
              THEN /\ app' = [app EXCEPT ![c] = [st EXCEPT !.safetyStatus = randomScenario]]
                   /\ toast' = IF randomScenario = "warning"
                               THEN Toast("Area Alert", "destructive")
                               ELSE NoToast
              ELSE /\ app' = [app EXCEPT ![c] = st]
                   /\ toast' = NoToast
           /\ last' = Outcome("ping", u, p.sid, randomScenario, res.err, res.rows, NoMeta)
    /\ UNCHANGED <<authUsers, deletedUsers, profiles, alerts,
                   nextProfile, nextSession, nextAlert, now>>

\* AlertCenter.loadAlerts: the two selects are served, the query with the filter
\* of the render that started the load; setLoading(false) runs in the finally
LoadAlerts(c, p, ok) ==
    /\ p \in app[c].pending /\ p.k = "loadAlerts"
    /\ LET u == app[c].user
           alertsData == IF p.filter # "all"
                         THEN {a \in SelectAlerts(u) : a.status = p.filter}
                         ELSE SelectAlerts(u)
           st == [Answered(app[c], p) EXCEPT !.loading = FALSE]
       IN  /\ IF ok
              THEN /\ app' = [app EXCEPT ![c] =
                           [st EXCEPT !.alertList = {AlertItem(a) : a \in alertsData}]]
                   /\ toast' = NoToast
              ELSE /\ app' = [app EXCEPT ![c] = st]
                   /\ toast' = Toast("Error", "destructive")
           /\ last' = Outcome("loadAlerts", u, c, "", ~ok, Cardinality(alertsData), NoMeta)
    /\ UNCHANGED dbVars
    /\ UNCHANGED now

\* AlertCenter.handleResolveAlert up to the await; the Resolve button is rendered
\* for the listed alerts whose status is active
ClickResolve(c, a) ==
    /\ app[c].role \in {"admin", "police"}
    /\ a \in app[c].alertList /\ a.status = "active"
    /\ CanSend(c)
    /\ app' = [app EXCEPT ![c] =
                   Sent(@, [Cont("resolve", NULL, a.id, a.user_id, "")
                                EXCEPT !.filter = app[c].selectedStatus])]
    /\ toast' = NoToast
    /\ last' = Outcome("click_resolve", app[c].user, a.id, "", FALSE, 0, NoMeta)
    /\ UNCHANGED dbVars
    /\ UNCHANGED now

\* AlertCenter.handleResolveAlert: the update is served and the handler resumes
ResolveAlert(c, p, ok) ==
    /\ p \in app[c].pending /\ p.k = "resolve"
    /\ LET u == app[c].user
           res == IF ok THEN AlertsUpdate(u, {r \in alerts : r.id = p.aid},
                                          WithTime(ResolvePatch(u), p.at))
                        ELSE Failed(alerts)
           st == Answered(app[c], p)
       IN  /\ alerts' = res.table
           /\ IF res.err
              THEN /\ app' = [app EXCEPT ![c] = st]
                   /\ toast' = Toast("Error", "destructive")
              ELSE /\ app' = [app EXCEPT ![c] =
                           Sent([st EXCEPT !.loading = TRUE],
                                ContAlerts(p.filter, [tourists |-> st.tourists,
                                                      alerts |-> st.alertList]))]
                   /\ toast' = Toast("Alert Resolved", "default")
           /\ last' = Outcome("resolve", u, p.aid, StatusOf(p.aid), res.err, res.rows, NoMeta)
    /\ UNCHANGED <<authUsers, deletedUsers, profiles, sessions,
                   nextProfile, nextSession, nextAlert, now>>

\* EmergencyModal.handleEmergencyResponse up to its first await; the alert it is
\* given is one of the dashboard's list, and responding disables the button
ClickRespond(c, a) ==
    /\ app[c].role \in {"admin", "police"}
    /\ a \in app[c].alertList
    /\ \A p \in app[c].pending : p.k \notin {"modalSession", "modalAlert"}
    /\ CanSend(c)
    /\ app' = [app EXCEPT ![c] = Sent(@, Cont("modalSession", NULL, a.id, a.user_id, ""))]
    /\ toast' = NoToast
    /\ last' = Outcome("click_respond", app[c].user, a.id, "", FALSE, 0, NoMeta)
    /\ UNCHANGED dbVars
    /\ UNCHANGED now

\* EmergencyModal.handleEmergencyResponse: the session update is served, its
\* result is not read, and the handler goes on to the await of the alert update
ModalSession(c, p, ok) ==
    /\ p \in app[c].pending /\ p.k = "modalSession"
    /\ LET u == app[c].user
           res == IF ok THEN SessionsUpdate(u, {r \in sessions : r.user_id = p.owner
                                                                 /\ r.is_active},
                                            SafePatch)
                        ELSE Failed(sessions)
       IN  /\ sessions' = res.table
           /\ last' = Outcome("modalSession", u, p.owner, "", res.err, res.rows, NoMeta)
    /\ app' = [app EXCEPT ![c] =
                   Sent(Answered(@, p), Cont("modalAlert", NULL, p.aid, p.owner, ""))]
    /\ toast' = NoToast
    /\ UNCHANGED <<authUsers, deletedUsers, profiles, alerts,
                   nextProfile, nextSession, nextAlert, now>>

\* EmergencyModal.handleEmergencyResponse: the alert update is served, its result
\* is not read, and the handler ends with its toast
ModalAlert(c, p, ok) ==
    /\ p \in app[c].pending /\ p.k = "modalAlert"
    /\ LET u == app[c].user
           res == IF ok THEN AlertsUpdate(u, {r \in alerts : r.id = p.aid},
                                          WithTime(RespondPatch(u), p.at))
                        ELSE Failed(alerts)
       IN  /\ alerts' = res.table
           /\ last' = Outcome("modalAlert", u, p.aid, StatusOf(p.aid), res.err, res.rows,
                              NoMeta)
    /\ app' = [app EXCEPT ![c] = Answered(@, p)]
    /\ toast' = Toast("Emergency Response Completed", "default")
    /\ UNCHANGED <<authUsers, deletedUsers, profiles, sessions,
                   nextProfile, nextSession, nextAlert, now>>

\* ------------------------------------------- CommandCenter, LiveMap, ManageTourists
\* the lists the tab displays
Shown(c) == [tourists |-> app[c].tourists, alerts |-> app[c].alertList]

\* the dashboard pages other than AlertCenter, and the first request of each load
Pages == {"CommandCenter", "LiveMap", "ManageTourists"}
FirstLoad(page) ==
    CASE page = "CommandCenter" -> "loadData"
      [] page = "LiveMap" -> "loadMap"
      [] page = "ManageTourists" -> "loadTourists"
      [] page = "AlertCenter" -> "loadAlerts"
LoadKinds(page) ==
    CASE page = "CommandCenter" -> {"loadData", "loadDataProfiles", "loadDataAlerts"}
      [] page = "LiveMap" -> {"loadMap", "loadMapProfiles"}
      [] page = "ManageTourists" -> {"loadTourists", "loadTouristsSessions"}
      [] page = "AlertCenter" -> {"loadAlerts"}

\* session.safety_status === 'emergency' ? 'emergency' : === 'alert' ? 'alert' : 'safe'
StatusShown(safety_status) ==
    IF safety_status = "emergency" THEN "emergency"
    ELSE IF safety_status = "alert" THEN "alert"
    ELSE "safe"

\* CommandCenter / LiveMap: the entry made of an active session and the profiles read
TouristOfSession(session, profilesData) ==
    LET ps == {q \in profilesData : q.user_id = session.user_id}
    IN  [id |-> IF ps # {} THEN (CHOOSE q \in ps : TRUE).id ELSE session.user_id,
         full_name |-> IF ps # {} THEN (CHOOSE q \in ps : TRUE).full_name ELSE "Unknown",
         status |-> StatusShown(session.safety_status),
         session_id |-> session.id]

\* ManageTourists: sessionsMap keeps one session per user_id, the one that comes
\* last in the rows returned, whose order the query leaves open
SessionMaps(sessionsData) ==
    LET owners == {r.user_id : r \in sessionsData}
    IN  {m \in [owners -> sessionsData] : \A o \in owners : m[o].user_id = o}

\* ManageTourists: the entry made of a tourist's profile and sessionsMap
TouristOfProfile(profile, sessionsMap) ==
    [id |-> profile.id,
     full_name |-> profile.full_name,
     status |-> IF profile.user_id \in DOMAIN sessionsMap
                THEN sessionsMap[profile.user_id].safety_status ELSE "",
     session_id |-> IF profile.user_id \in DOMAIN sessionsMap
                    THEN sessionsMap[profile.user_id].id ELSE NULL]

\* a dashboard route other than /alerts is opened by an admin or police user (the
\* mount effect loads for these roles only, and loading stays true otherwise)
OpenPage(c, u, page) ==
    /\ app[c].user = NULL
    /\ u \in authUsers
    /\ get_user_role(u) \in {"admin", "police"}
    /\ app' = [app EXCEPT ![c] =
                   [SignedOut EXCEPT !.user = u, !.role = get_user_role(u), !.view = page,
                                     !.pending = {ContLoad(FirstLoad(page), {}, NoLists)}]]
    /\ toast' = NoToast
    /\ last' = Outcome("open", u, c, page, FALSE, 0, NoMeta)
    /\ UNCHANGED dbVars
    /\ UNCHANGED now

\* the Refresh button, disabled while loading
Refresh(c) ==
    /\ app[c].view \in Pages \cup {"AlertCenter"}
    /\ IF app[c].view = "AlertCenter"
       THEN ~app[c].loading
       ELSE \A p \in app[c].pending : p.k \notin LoadKinds(app[c].view)
    /\ CanSend(c)
    /\ app' = [app EXCEPT ![c] =
                   IF app[c].view = "AlertCenter"
                   THEN Sent([@ EXCEPT !.loading = TRUE],
                             ContAlerts(app[c].selectedStatus, Shown(c)))
                   ELSE Sent(@, ContLoad(FirstLoad(app[c].view), {}, Shown(c)))]
    /\ toast' = NoToast
    /\ last' = Outcome("refresh", app[c].user, c, app[c].view, FALSE, 0, NoMeta)
    /\ UNCHANGED dbVars
    /\ UNCHANGED now

\* AlertCenter: a filter button sets selectedStatus; when the value changes, the
\* effect that depends on it calls loadAlerts of the new render
SelectFilter(c, selectedStatus) ==
    /\ app[c].view = "AlertCenter"
    /\ app[c].role \in {"admin", "police"}
    /\ selectedStatus \in {"active", "resolved", "all"}
    /\ selectedStatus # app[c].selectedStatus
    /\ CanSend(c)
    /\ app' = [app EXCEPT ![c] =
                   Sent([@ EXCEPT !.selectedStatus = selectedStatus, !.loading = TRUE],
                        ContAlerts(selectedStatus, Shown(c)))]
    /\ toast' = NoToast
    /\ last' = Outcome("filter", app[c].user, c, selectedStatus, FALSE, 0, NoMeta)
    /\ UNCHANGED dbVars
    /\ UNCHANGED now

\* a step of a load: the select is served; st is the tab afterwards and shown the
\* notification
LoadStep(c, op, ok, n, st, shown) ==
    /\ app' = [app EXCEPT ![c] = st]
    /\ toast' = shown
    /\ last' = Outcome(op, app[c].user, c, app[c].view, ~ok, n, NoMeta)
    /\ UNCHANGED dbVars
    /\ UNCHANGED now

ActiveSessions(u) == {r \in SelectSessions(u) : r.is_active}

\* CommandCenter.loadData: the select on tourist_sessions is served
LoadDataSessions(c, p, ok) ==
    /\ p \in app[c].pending /\ p.k = "loadData"
    /\ LET sessionsData == ActiveSessions(app[c].user)
           st == Answered(app[c], p)
       IN  IF ok
           THEN LoadStep(c, "loadData", ok, Cardinality(sessionsData),
                         Sent(st, ContLoad("loadDataProfiles", sessionsData, p.seen)), NoToast)
           ELSE LoadStep(c, "loadData", ok, 0, st, Toast("Error", "destructive"))

\* CommandCenter.loadData: the select on profiles is served, and setTourists runs
LoadDataProfiles(c, p, ok) ==
    /\ p \in app[c].pending /\ p.k = "loadDataProfiles"
    /\ LET profilesData == SelectProfiles(app[c].user)
           st == Answered(app[c], p)
       IN  IF ok
           THEN LoadStep(c, "loadDataProfiles", ok, Cardinality(profilesData),
                         Sent([st EXCEPT !.tourists =
                                   {TouristOfSession(r, profilesData) : r \in p.data}],
                              ContLoad("loadDataAlerts", {}, p.seen)),
                         NoToast)
           ELSE LoadStep(c, "loadDataProfiles", ok, 0, st, Toast("Error", "destructive"))

\* CommandCenter.loadData: the select on emergency_alerts is served, and setAlerts runs
LoadDataAlerts(c, p, ok) ==
    /\ p \in app[c].pending /\ p.k = "loadDataAlerts"
    /\ LET alertsData == {a \in SelectAlerts(app[c].user) : a.status = "active"}
           st == Answered(app[c], p)
       IN  IF ok
           THEN LoadStep(c, "loadDataAlerts", ok, Cardinality(alertsData),
                         [st EXCEPT !.alertList = {AlertItem(a) : a \in alertsData}], NoToast)
           ELSE LoadStep(c, "loadDataAlerts", ok, 0, st, Toast("Error", "destructive"))

\* LiveMap.loadTourists: the select on tourist_sessions is served
LoadMapSessions(c, p, ok) ==
    /\ p \in app[c].pending /\ p.k = "loadMap"
    /\ LET sessionsData == ActiveSessions(app[c].user)
           st == Answered(app[c], p)
       IN  IF ok
           THEN LoadStep(c, "loadMap", ok, Cardinality(sessionsData),
                         Sent(st, ContLoad("loadMapProfiles", sessionsData, p.seen)), NoToast)
           ELSE LoadStep(c, "loadMap", ok, 0, st, NoToast)

\* LiveMap.loadTourists: the select on profiles is served, and setTourists runs
LoadMapProfiles(c, p, ok) ==
    /\ p \in app[c].pending /\ p.k = "loadMapProfiles"
    /\ LET profilesData == SelectProfiles(app[c].user)
           st == Answered(app[c], p)
       IN  IF ok
           THEN LoadStep(c, "loadMapProfiles", ok, Cardinality(profilesData),
                         [st EXCEPT !.tourists =
                              {TouristOfSession(r, profilesData) : r \in p.data}],
                         NoToast)
           ELSE LoadStep(c, "loadMapProfiles", ok, 0, st, NoToast)

\* ManageTourists.loadTourists: the select on profiles is served
LoadTouristsProfiles(c, p, ok) ==
    /\ p \in app[c].pending /\ p.k = "loadTourists"
    /\ LET profilesData == {q \in SelectProfiles(app[c].user) : q.role = "tourist"}
           st == Answered(app[c], p)
       IN  IF ok
           THEN LoadStep(c, "loadTourists", ok, Cardinality(profilesData),
                         Sent(st, ContLoad("loadTouristsSessions", profilesData, p.seen)),
                         NoToast)
           ELSE LoadStep(c, "loadTourists", ok, 0, st, Toast("Error", "destructive"))

\* ManageTourists.loadTourists: the select on tourist_sessions is served, and
\* setTourists runs
LoadTouristsSessions(c, p, ok) ==
    /\ p \in app[c].pending /\ p.k = "loadTouristsSessions"
    /\ LET sessionsData == ActiveSessions(app[c].user)
           st == Answered(app[c], p)
       IN  IF ok
           THEN \E sessionsMap \in SessionMaps(sessionsData) :
                    LoadStep(c, "loadTouristsSessions", ok, Cardinality(sessionsData),
                             [st EXCEPT !.tourists =
                                  {TouristOfProfile(q, sessionsMap) : q \in p.data}],
                             NoToast)
           ELSE LoadStep(c, "loadTouristsSessions", ok, 0, st, Toast("Error", "destructive"))

\* ------------------------------------------------------------ the Auth page
\* what the sign-up form holds when it is submitted: useForm's defaultValues are
\* empty strings and role 'tourist'; authSchema lets a full_name of two characters
\* or more through
AuthFormData ==
    {[full_name |-> f, role |-> r, phone |-> o.phone,
      emergency_contact_name |-> o.emergency_contact_name,
      emergency_contact_phone |-> o.emergency_contact_phone,
      country |-> o.country] :
        f \in {"Ann", "Bo"}, r \in AppRole,
        o \in {[phone |-> ph, emergency_contact_name |-> n,
                emergency_contact_phone |-> e, country |-> c] :
                   ph \in {"", "+15550100"}, n \in {"", "Bob"},
                   e \in {"", "+15550199"}, c \in {"", "Peru"}}}

\* Auth.onSubmit: the object handed to signUp, which becomes the new account's
\* raw_user_meta_data; a key that is not in the object is absent there
UserData(data) ==
    [NoMeta EXCEPT !.full_name = data.full_name,
                   !.role = IF data.role # "" THEN data.role ELSE "tourist"]

\* Auth.onSubmit in sign-up mode: the account is created with this metadata
SubmitSignUp(id, data) ==
    Signup(id, UserData(data))

\* the Auth page: visitors sign up through the form, accounts are deleted
NextAuth ==
    \/ \E id \in UserIds, data \in AuthFormData : SubmitSignUp(id, data)
    \/ \E id \in UserIds : DeleteUser(id)

SpecAuth == Init /\ [][NextAuth]_vars

AccountSteps ==
    \/ \E id \in UserIds, meta \in MetaCore : Signup(id, meta)
    \/ \E id \in UserIds : DeleteUser(id)

AlertRequests ==
    \/ \E caller \in TokenHolders, uid \in UserIds : InsertAlert(caller, uid)
    \/ \E caller \in TokenHolders, id \in 1..MaxAlerts, name \in AlertPatchNames :
           UpdateAlert(caller, id, name)
    \/ \E caller \in TokenHolders, id \in 1..MaxAlerts : DeleteAlert(caller, id)

SessionRequests ==
    \/ \E caller \in TokenHolders, uid \in UserIds : InsertSession(caller, uid)
    \/ \E caller \in TokenHolders, id \in 1..MaxSessions, name \in SessionPatchNames :
           UpdateSession(caller, id, name)
    \/ \E caller \in TokenHolders, id \in 1..MaxSessions : DeleteSession(caller, id)

ProfileRequests ==
    \/ \E caller \in TokenHolders, uid \in UserIds, role \in AppRole :
           InsertProfile(caller, uid, role)
    \/ \E caller \in TokenHolders, uid \in UserIds, name \in ProfilePatchNames :
           UpdateProfile(caller, uid, name)
    \/ \E caller \in TokenHolders, uid \in UserIds : DeleteProfile(caller, uid)

\* accounts alone, with every field of the signup metadata
NextSignup ==
    \/ \E id \in UserIds, meta \in MetaAll : Signup(id, meta)
    \/ \E id \in UserIds : DeleteUser(id)
SpecSignup == Init /\ [][NextSignup]_vars

NextAlerts == AccountSteps \/ AlertRequests
SpecAlerts == Init /\ [][NextAlerts]_vars

NextSessions == AccountSteps \/ SessionRequests
SpecSessions == Init /\ [][NextSessions]_vars

NextProfiles == AccountSteps \/ ProfileRequests
SpecProfiles == Init /\ [][NextProfiles]_vars

\* all three tables together: accounts, and the requests that create rows, change
\* their owner, resolve an alert, change a role or remove a row
Next ==
    \/ \E id \in UserIds, meta \in MetaCore : Signup(id, meta)
    \/ \E id \in UserIds : DeleteUser(id)
    \/ \E caller \in TokenHolders, uid \in UserIds : InsertAlert(caller, uid)
    \/ \E caller \in TokenHolders, id \in 1..MaxAlerts, name \in {"resolve", "reassign"} :
           UpdateAlert(caller, id, name)
    \/ \E caller \in TokenHolders, uid \in UserIds : InsertSession(caller, uid)
    \/ \E caller \in TokenHolders, id \in 1..MaxSessions : DeleteSession(caller, id)
    \/ \E caller \in TokenHolders, uid \in UserIds : UpdateProfile(caller, uid, "promote")

Spec == Init /\ [][Next]_vars

\* the application once the accounts exist: every user has signed up, as a tourist
\* or, the one with the highest id, as an admin or a police officer. The tabs run
\* the components, and a tourist's own requests to the REST endpoint create the
\* tourist_sessions rows.
InitApp ==
    /\ authUsers = UserIds
    /\ deletedUsers = {}
    /\ now = 1
    /\ nextProfile = MaxUsers + 1
    /\ \E staff \in {"admin", "police"} :
           profiles = {[handle_new_user(u, [NoMeta EXCEPT !.role =
                                            IF u = MaxUsers THEN staff ELSE "tourist"])
                           EXCEPT !.id = u] : u \in UserIds}
    /\ sessions = {}
    /\ alerts = {}
    /\ nextSession = 1
    /\ nextAlert = 1
    /\ last = Outcome("init", NULL, NULL, "", FALSE, 0, NoMeta)
    /\ app = [c \in Clients |-> SignedOut]
    /\ toast = NoToast

Pending(c, k) == {p \in app[c].pending : p.k = k}

\* the tourist's tab: session tracking
NextTracking ==
    \/ \E c \in Clients, u \in UserIds : OpenApp(c, u)
    \/ \E c \in Clients, ok \in BOOLEAN : \E p \in Pending(c, "loadSession") :
           LoadSession(c, p, ok)
    \/ \E c \in Clients : ClickStart(c)
    \/ \E c \in Clients, ok \in BOOLEAN : \E p \in Pending(c, "startTracking") :
           StartTracking(c, p, ok)
    \/ \E c \in Clients : ClickStop(c)
    \/ \E c \in Clients, ok \in BOOLEAN : \E p \in Pending(c, "stopTracking") :
           StopTracking(c, p, ok)
    \/ \E c \in Clients : PingTick(c)
    \/ \E c \in Clients, ok \in BOOLEAN, z \in {"safe", "warning"} :
           \E p \in Pending(c, "ping") : Ping(c, p, ok, z)
    \/ \E u \in UserIds : InsertSession(u, u)

SpecTracking == InitApp /\ [][NextTracking]_vars

\* the emergency flow: the tourist's panic button, and the dashboard's two ways
\* of resolving an alert
NextEmergency ==
    \/ \E c \in Clients, u \in UserIds : OpenApp(c, u)
    \/ \E c \in Clients, ok \in BOOLEAN : \E p \in Pending(c, "loadSession") :
           LoadSession(c, p, ok)
    \/ \E c \in Clients : ClickPanic(c)
    \/ \E c \in Clients, ok \in BOOLEAN : \E p \in Pending(c, "panicInsert") :
           PanicInsert(c, p, ok)
    \/ \E c \in Clients, ok \in BOOLEAN : \E p \in Pending(c, "panicUpdate") :
           PanicUpdate(c, p, ok)
    \/ \E c \in Clients, ok \in BOOLEAN : \E p \in Pending(c, "loadAlerts") :
           LoadAlerts(c, p, ok)
    \/ \E c \in Clients : \E a \in app[c].alertList : ClickResolve(c, a)
    \/ \E c \in Clients, ok \in BOOLEAN : \E p \in Pending(c, "resolve") :
           ResolveAlert(c, p, ok)
    \/ \E c \in Clients : \E a \in app[c].alertList : ClickRespond(c, a)
    \/ \E c \in Clients, ok \in BOOLEAN : \E p \in Pending(c, "modalSession") :
           ModalSession(c, p, ok)
    \/ \E c \in Clients, ok \in BOOLEAN : \E p \in Pending(c, "modalAlert") :
           ModalAlert(c, p, ok)
    \/ \E u \in UserIds : InsertSession(u, u)

SpecEmergency == InitApp /\ [][NextEmergency]_vars

\* the dashboards: one tab loads the lists of a page while the tourists' own
\* requests create sessions and alerts (loads only read, so tabs do not affect
\* each other)
FirstTab == {c \in Clients : \A d \in Clients : c <= d}

NextDashboard ==
    \/ \E c \in FirstTab, u \in UserIds : OpenApp(c, u)
    \/ \E c \in FirstTab, u \in UserIds, page \in Pages : OpenPage(c, u, page)
    \/ \E c \in Clients : Refresh(c)
    \/ \E c \in Clients, ok \in BOOLEAN : \E p \in Pending(c, "loadData") :
           LoadDataSessions(c, p, ok)
    \/ \E c \in Clients, ok \in BOOLEAN : \E p \in Pending(c, "loadDataProfiles") :
           LoadDataProfiles(c, p, ok)
    \/ \E c \in Clients, ok \in BOOLEAN : \E p \in Pending(c, "loadDataAlerts") :
           LoadDataAlerts(c, p, ok)
    \/ \E c \in Clients, ok \in BOOLEAN : \E p \in Pending(c, "loadMap") :
           LoadMapSessions(c, p, ok)
    \/ \E c \in Clients, ok \in BOOLEAN : \E p \in Pending(c, "loadMapProfiles") :
           LoadMapProfiles(c, p, ok)
    \/ \E c \in Clients, ok \in BOOLEAN : \E p \in Pending(c, "loadTourists") :
           LoadTouristsProfiles(c, p, ok)
    \/ \E c \in Clients, ok \in BOOLEAN : \E p \in Pending(c, "loadTouristsSessions") :
           LoadTouristsSessions(c, p, ok)
    \/ \E c \in Clients, ok \in BOOLEAN : \E p \in Pending(c, "loadAlerts") :
           LoadAlerts(c, p, ok)
    \/ \E u \in UserIds : InsertSession(u, u)
    \/ \E u \in UserIds : InsertAlert(u, u)

SpecDashboard == InitApp /\ [][NextDashboard]_vars

\* one tourist tab with every handler of TouristApp: tracking, the interval
\* callback and the panic button together
NextTourist ==
    \/ \E c \in FirstTab, u \in UserIds : OpenApp(c, u)
    \/ \E c \in Clients, ok \in BOOLEAN : \E p \in Pending(c, "loadSession") :
           LoadSession(c, p, ok)
    \/ \E c \in Clients : ClickStart(c)
    \/ \E c \in Clients, ok \in BOOLEAN : \E p \in Pending(c, "startTracking") :
           StartTracking(c, p, ok)
    \/ \E c \in Clients : ClickStop(c)
    \/ \E c \in Clients, ok \in BOOLEAN : \E p \in Pending(c, "stopTracking") :
           StopTracking(c, p, ok)
    \/ \E c \in Clients : PingTick(c)
    \/ \E c \in Clients, ok \in BOOLEAN, z \in {"safe", "warning"} :
           \E p \in Pending(c, "ping") : Ping(c, p, ok, z)
    \/ \E c \in Clients : ClickPanic(c)
    \/ \E c \in Clients, ok \in BOOLEAN : \E p \in Pending(c, "panicInsert") :
           PanicInsert(c, p, ok)
    \/ \E c \in Clients, ok \in BOOLEAN : \E p \in Pending(c, "panicUpdate") :
           PanicUpdate(c, p, ok)
    \/ \E u \in UserIds : InsertSession(u, u)

SpecTourist == InitApp /\ [][NextTourist]_vars

\* what happens without the user: a request in flight is answered, and the
\* interval of the ping effect fires while there is room for its request
TouristProgress ==
    \/ \E c \in Clients, ok \in BOOLEAN : \E p \in Pending(c, "loadSession") :
           LoadSession(c, p, ok)
    \/ \E c \in Clients, ok \in BOOLEAN : \E p \in Pending(c, "startTracking") :
           StartTracking(c, p, ok)
    \/ \E c \in Clients, ok \in BOOLEAN : \E p \in Pending(c, "stopTracking") :
           StopTracking(c, p, ok)
    \/ \E c \in Clients, ok \in BOOLEAN, z \in {"safe", "warning"} :
           \E p \in Pending(c, "ping") : Ping(c, p, ok, z)
    \/ \E c \in Clients, ok \in BOOLEAN : \E p \in Pending(c, "panicInsert") :
           PanicInsert(c, p, ok)
    \/ \E c \in Clients, ok \in BOOLEAN : \E p \in Pending(c, "panicUpdate") :
           PanicUpdate(c, p, ok)
    \/ \E c \in Clients : PingTick(c)

\* the same tab where every request is eventually answered and the timer keeps
\* firing; the user's clicks are not forced
SpecTouristFair == SpecTourist /\ WF_vars(TouristProgress)

\* resolving over time: the dashboard's two ways of resolving an alert, from a
\* list that may be stale, while the clock advances
NextResolve ==
    \/ Tick
    \/ \E c \in FirstTab, u \in UserIds : OpenApp(c, u)
    \/ \E c \in Clients, ok \in BOOLEAN : \E p \in Pending(c, "loadAlerts") :
           LoadAlerts(c, p, ok)
    \/ \E c \in Clients : \E a \in app[c].alertList : ClickResolve(c, a)
    \/ \E c \in Clients, ok \in BOOLEAN : \E p \in Pending(c, "resolve") :
           ResolveAlert(c, p, ok)
    \/ \E c \in Clients : \E a \in app[c].alertList : ClickRespond(c, a)
    \/ \E c \in Clients, ok \in BOOLEAN : \E p \in Pending(c, "modalSession") :
           ModalSession(c, p, ok)
    \/ \E c \in Clients, ok \in BOOLEAN : \E p \in Pending(c, "modalAlert") :
           ModalAlert(c, p, ok)
    \/ \E u \in UserIds : InsertAlert(u, u)

SpecResolve == InitApp /\ [][NextResolve]_vars

\* AlertCenter alone: one tab loads, filters, refreshes and resolves while the
\* tourists raise alerts
NextAlertCenter ==
    \/ \E c \in FirstTab, u \in UserIds : OpenApp(c, u)
    \/ \E c \in Clients, f \in {"active", "resolved", "all"} : SelectFilter(c, f)
    \/ \E c \in Clients : Refresh(c)
    \/ \E c \in Clients, ok \in BOOLEAN : \E p \in Pending(c, "loadAlerts") :
           LoadAlerts(c, p, ok)
    \/ \E c \in Clients : \E a \in app[c].alertList : ClickResolve(c, a)
    \/ \E c \in Clients, ok \in BOOLEAN : \E p \in Pending(c, "resolve") :
           ResolveAlert(c, p, ok)
    \/ \E u \in UserIds : InsertAlert(u, u)

SpecAlertCenter == InitApp /\ [][NextAlertCenter]_vars

\* the clock and the updates: rows are updated at a later time than they were
\* created, also by requests that supply an updated_at of their own
NextTimestamps ==
    \/ Tick
    \/ \E u \in UserIds : InsertSession(u, u)
    \/ \E caller \in UserIds, id \in 1..MaxSessions : UpdateSession(caller, id, "postdate")
    \/ \E caller \in UserIds, uid \in UserIds : UpdateProfile(caller, uid, "postdate")
    \/ \E u \in UserIds : InsertAlert(u, u)
    \/ \E caller \in UserIds, id \in 1..MaxAlerts : UpdateAlert(caller, id, "resolve")

SpecTimestamps == InitApp /\ [][NextTimestamps]_vars

\* ================================================================= claims
\* the caller has a profiles row whose role is admin or police
HasElevatedProfile(c) ==
    \E p \in profiles : p.user_id = c /\ p.role \in {"admin", "police"}

\* C1: a caller whose role is not admin or police (a caller without a profiles
\* row included) gets from a select on emergency_alerts or tourist_sessions no row
\* of another user.
C1_SelectOnlyOwnRows ==
    \A caller \in Callers :
        ~HasElevatedProfile(caller) =>
            /\ \A r \in SelectAlerts(caller) : r.user_id = caller
            /\ \A r \in SelectSessions(caller) : r.user_id = caller

\* a tourist who owns an alert, while another user's alert and session exist
C1_Witness ==
    \E c \in authUsers :
        /\ \E p \in profiles : p.user_id = c /\ p.role = "tourist"
        /\ SelectAlerts(c) # {}
        /\ \E a \in alerts : a.user_id # c
        /\ \E r \in sessions : r.user_id # c

\* C2: an insert into emergency_alerts adds a row only with user_id = the caller's
\* id; with any other user_id the insert is rejected and the table is unchanged.
C2_InsertAlertOwnIdOnly ==
    [][last'.op = "insert_alert" =>
          /\ \A r \in alerts' \ alerts : r.user_id = last'.caller
          /\ last'.id # last'.caller => last'.err /\ alerts' = alerts]_vars

\* a tourist's insert for another existing user was rejected
C2_Witness ==
    /\ last.op = "insert_alert"
    /\ last.err
    /\ last.id # last.caller
    /\ last.id \in authUsers
    /\ \E p \in profiles : p.user_id = last.caller /\ p.role = "tourist"

\* C3: the resolve update of an active alert by an admin or police caller succeeds
\* and leaves status = resolved, resolved_at = now, resolved_by = caller; issued by
\* the alert's owner who is neither, it changes nothing.
C3_ResolveByRole ==
    [][\A a \in alerts :
          (/\ last'.op = "update_alert"
           /\ last'.arg = "resolve"
           /\ last'.id = a.id
           /\ a.status = "active") =>
              /\ HasElevatedProfile(last'.caller) =>
                    /\ ~last'.err
                    /\ \E b \in alerts' :
                          /\ b.id = a.id
                          /\ b.status = "resolved"
                          /\ b.resolved_at = now
                          /\ b.resolved_at # NULL
                          /\ b.resolved_by = last'.caller
              /\ (a.user_id = last'.caller /\ ~HasElevatedProfile(last'.caller)) =>
                    /\ alerts' = alerts
                    /\ last'.rows = 0]_vars

\* one alert stands resolved by an admin or police user, and the owner of another,
\* active alert has just sent the resolve update, which touched no row
C3_Witness ==
    /\ \E a \in alerts :
          /\ a.status = "resolved"
          /\ HasElevatedProfile(a.resolved_by)
          /\ a.user_id # a.resolved_by
    /\ last.op = "update_alert"
    /\ last.arg = "resolve"
    /\ last.rows = 0
    /\ ~HasElevatedProfile(last.caller)
    /\ \E b \in alerts : b.id = last.id /\ b.user_id = last.caller /\ b.status = "active"

\* C4: every account has exactly one profiles row, and every profiles row was
\* inserted by the signup trigger.
C4_OneTriggerProfilePerUser ==
    /\ \A u \in authUsers : Cardinality({p \in profiles : p.user_id = u}) = 1
    /\ \A p \in profiles : p.origin = "trigger" /\ p.user_id \in authUsers

\* a signed-in user has just tried to insert a profiles row for themself
C4_Witness ==
    /\ last.op = "insert_profile"
    /\ last.caller = last.id
    /\ last.caller \in authUsers
    /\ last.err

\* C5: after a signup that went through, the new account has exactly one profile:
\* role tourist when the metadata has no role, full_name "User" when it has no
\* full_name, and the four optional fields as in the metadata (null when absent).
C5_ProvisionedProfile ==
    (last.op = "signup" /\ ~last.err) =>
        LET ps == {p \in profiles : p.user_id = last.id}
            m == last.meta
        IN  /\ last.id \in authUsers
            /\ Cardinality(ps) = 1
            /\ \A p \in ps :
                  /\ m.role = TNULL => p.role = "tourist"
                  /\ m.role \in AppRole => p.role = m.role
                  /\ m.full_name = TNULL => p.full_name = "User"
                  /\ m.full_name # TNULL => p.full_name = m.full_name
                  /\ p.phone = m.phone
                  /\ p.emergency_contact_name = m.emergency_contact_name
                  /\ p.emergency_contact_phone = m.emergency_contact_phone
                  /\ p.country = m.country

\* a signup without role and full_name, with a phone and without a country
C5_Witness ==
    /\ last.op = "signup"
    /\ ~last.err
    /\ last.meta.role = TNULL
    /\ last.meta.full_name = TNULL
    /\ last.meta.phone # TNULL
    /\ last.meta.country = TNULL

\* C6: a signup whose metadata role is outside {tourist, admin, police} fails as a
\* whole: no account, no profile, every table as before.
C6_InvalidRoleAbortsSignup ==
    [][(last'.op = "signup" /\ last'.meta.role \notin AppRole \cup {TNULL}) =>
          /\ last'.err
          /\ UNCHANGED <<authUsers, profiles, sessions, alerts>>
          /\ last'.id \notin authUsers'
          /\ \A p \in profiles' : p.user_id # last'.id]_vars

\* a signup with role "superuser" has failed while another account exists
C6_Witness ==
    /\ last.op = "signup"
    /\ last.err
    /\ last.meta.role = "superuser"
    /\ authUsers # {}

\* C8: at most one tourist_sessions row with is_active = true per user.
C8_AtMostOneActiveSession ==
    \A u \in UserIds :
        Cardinality({r \in sessions : r.user_id = u /\ r.is_active}) <= 1

\* C10: an update by an admin or police caller of another user's alert leaves
\* user_id, alert_type, message, location_lat, location_lng and created_at as
\* they were.
C10_ElevatedUpdateKeepsContent ==
    [][(last'.op = "update_alert" /\ HasElevatedProfile(last'.caller)) =>
          \A a \in alerts :
              a.user_id # last'.caller =>
                  \E b \in alerts' :
                      /\ b.id = a.id
                      /\ b.user_id = a.user_id
                      /\ b.alert_type = a.alert_type
                      /\ b.message = a.message
                      /\ b.location_lat = a.location_lat
                      /\ b.location_lng = a.location_lng
                      /\ b.created_at = a.created_at]_vars

\* C7: a startTracking upsert that reaches the database for a user who has at most
\* one tourist_sessions row leaves at most one row for that user, and when the row
\* existed it adds none and overwrites that row with the values of the request.
C7_StartTrackingOverwrites ==
    [][\A c \in Clients : \A p \in Pending(c, "startTracking") :
          LET u == app[c].user
              mine == {r \in sessions : r.user_id = u}
              after == {r \in sessions' : r.user_id = u}
              sent == WithTime(StartPayload(u), p.at)
          IN  (StartTracking(c, p, TRUE) /\ Cardinality(mine) <= 1) =>
                  /\ Cardinality(after) <= 1
                  /\ mine # {} =>
                        /\ Cardinality(sessions') = Cardinality(sessions)
                        /\ \A r \in after :
                              /\ r.id \in {m.id : m \in mine}
                              /\ \A col \in DOMAIN sent : r[col] = sent[col]]_vars

\* C9: no step of the application (panic, AlertCenter resolve, EmergencyModal
\* response) takes an alert whose status is resolved to another status.
C9_ResolvedIsTerminal ==
    [][\A a \in alerts : \A b \in alerts' :
          (a.id = b.id /\ a.status = "resolved") => b.status = "resolved"]_vars

\* an alert that was already resolved has been updated again by a resolve or an
\* emergency response, and is resolved
C9_Witness ==
    /\ last.op \in {"resolve", "modalAlert"}
    /\ last.arg = "resolved"
    /\ last.rows = 1
    /\ \E a \in alerts : a.id = last.id /\ a.status = "resolved"

\* C11: no insert, update or delete request on emergency_alerts, by any caller,
\* removes a row: every alert id present before the request is present after it.
C11_AlertsAppendOnly ==
    [][last'.op \in {"insert_alert", "update_alert", "delete_alert"} =>
          {a.id : a \in alerts} \subseteq {a.id : a \in alerts'}]_vars

\* an admin or police caller has asked to delete an existing alert, which is still there
C11_Witness ==
    /\ last.op = "delete_alert"
    /\ HasElevatedProfile(last.caller)
    /\ ~last.err /\ last.rows = 0
    /\ \E a \in alerts : a.id = last.id

\* C12: an insert or update on profiles for a user id other than the caller's
\* leaves the table unchanged, and a caller with role admin or police selects
\* every profiles row.
C12_ProfilesOwnerWrites ==
    [][/\ (last'.op \in {"insert_profile", "update_profile"} /\ last'.caller # last'.id)
            => profiles' = profiles
       /\ \A c \in UserIds :
            HasElevatedProfile(c)' => SelectProfiles(c)' = profiles']_vars

\* an admin or police caller who sees both profiles has tried to update the other
\* user's profile, and no row was updated
C12_Witness ==
    /\ last.op = "update_profile"
    /\ HasElevatedProfile(last.caller)
    /\ last.caller # last.id
    /\ last.rows = 0
    /\ \E p \in profiles : p.user_id = last.id
    /\ Cardinality(SelectProfiles(last.caller)) = 2

\* C13: an insert, update or delete on tourist_sessions that targets a row of
\* another user leaves that row (for an insert, the table) unchanged; the owner's
\* insert, update and delete on their own row are applied; a caller with role
\* admin or police selects every tourist_sessions row.
C13_SessionsOwnerManages ==
    [][/\ last'.op = "insert_session" =>
            IF last'.caller = last'.id /\ last'.caller \in authUsers
            THEN ~last'.err /\ Cardinality(sessions') = Cardinality(sessions) + 1
            ELSE sessions' = sessions
       /\ last'.op \in {"update_session", "delete_session"} =>
            \A r \in sessions : r.id = last'.id =>
                IF r.user_id = last'.caller
                THEN ~last'.err /\ last'.rows = 1
                     /\ (last'.op = "delete_session" => r \notin sessions')
                ELSE r \in sessions'
       /\ \A c \in UserIds :
            HasElevatedProfile(c)' => SelectSessions(c)' = sessions']_vars

\* an admin or police caller who sees another user's session has tried to update
\* or delete it, and no row was touched
C13_Witness ==
    /\ last.op \in {"update_session", "delete_session"}
    /\ HasElevatedProfile(last.caller)
    /\ last.rows = 0
    /\ \E r \in SelectSessions(last.caller) : r.id = last.id /\ r.user_id # last.caller

\* C14: in a panic of a tourist who holds a session, the insert step changes no
\* session row; served, it adds exactly one alert (user_id = the caller,
\* alert_type panic, status active) and only then is the session update sent;
\* failed, it adds no alert and sends no session update. The session update step
\* changes no alert; served, it sets the held session to emergency; failed, it
\* leaves the sessions as they were, while the caller's panic alert exists.
C14_PanicInsertThenUpdate ==
    [][\A c \in Clients :
          LET u == app[c].user
              updates == Pending(c, "panicUpdate")
          IN  /\ \A p \in Pending(c, "panicInsert") : \A ok \in BOOLEAN :
                    (PanicInsert(c, p, ok) /\ p.sid # NULL) =>
                        /\ sessions' = sessions
                        /\ IF ok
                           THEN /\ alerts \subseteq alerts'
                                /\ Cardinality(alerts' \ alerts) = 1
                                /\ \A a \in alerts' \ alerts :
                                      /\ a.user_id = u
                                      /\ a.alert_type = "panic"
                                      /\ a.status = "active"
                                /\ \E q \in app'[c].pending :
                                      q.k = "panicUpdate" /\ q.sid = p.sid
                           ELSE /\ alerts' = alerts
                                /\ {q \in app'[c].pending : q.k = "panicUpdate"} = updates
              /\ ({q \in app'[c].pending : q.k = "panicUpdate"} \ updates # {}) =>
                    (last'.op = "panicInsert" /\ ~last'.err)
              /\ \A p \in updates : \A ok \in BOOLEAN :
                    PanicUpdate(c, p, ok) =>
                        /\ alerts' = alerts
                        /\ \E a \in alerts' : a.user_id = u /\ a.alert_type = "panic"
                        /\ IF ok
                           THEN \E r \in sessions' :
                                    /\ r.id = p.sid /\ r.user_id = u
                                    /\ r.safety_status = "emergency"
                           ELSE sessions' = sessions]_vars

\* the insert of a panic went through and its session update failed: the alert is
\* there and the session is as it was
C14_Witness ==
    /\ last.op = "panicUpdate" /\ last.err
    /\ \E a \in alerts : a.user_id = last.caller /\ a.status = "active"
    /\ \E r \in sessions : r.id = last.id /\ r.user_id = last.caller
                                           /\ r.safety_status = "safe"

\* C15: when the AlertCenter resolve of an admin or police caller is served, the
\* alert has status resolved and resolved_by = the caller's id, and no
\* tourist_sessions row changes.
C15_ResolveKeepsSession ==
    [][\A c \in Clients : \A p \in Pending(c, "resolve") :
          (ResolveAlert(c, p, TRUE) /\ HasElevatedProfile(app[c].user)) =>
              /\ sessions' = sessions
              /\ \A a \in alerts : a.id = p.aid =>
                    \E b \in alerts' : /\ b.id = a.id
                                        /\ b.status = "resolved"
                                        /\ b.resolved_by = app[c].user]_vars

\* an alert has just been resolved from the AlertCenter while its owner's session
\* is in emergency
C15_Witness ==
    /\ last.op = "resolve" /\ ~last.err /\ last.rows = 1
    /\ \E a \in alerts :
          /\ a.id = last.id /\ a.status = "resolved" /\ a.resolved_by = last.caller
          /\ \E r \in sessions : r.user_id = a.user_id /\ r.safety_status = "emergency"

\* C16: a write of the application that fails (the alert insert, the session
\* upsert, the session updates of panic, ping and stop, the alert resolve, the two
\* updates of the EmergencyModal) shows the destructive error notification, and
\* leaves tourist_sessions and emergency_alerts as they were.
C16_FailedWriteShowsError ==
    [][(/\ last'.op \in {"panicInsert", "startTracking", "panicUpdate", "ping",
                         "stopTracking", "resolve", "modalSession", "modalAlert"}
        /\ last'.err) =>
           /\ toast' = Toast("Error", "destructive")
           /\ sessions' = sessions
           /\ alerts' = alerts]_vars

\* C17: when a select of a dashboard load fails, the step changes none of the
\* lists the component displays, and for CommandCenter, LiveMap and ManageTourists
\* (one load at a time) the lists are those displayed when the load started.
C17_FailedLoadKeepsLists ==
    [][\A c \in Clients :
          (/\ last'.op \in {"loadData", "loadDataProfiles", "loadDataAlerts", "loadMap",
                            "loadMapProfiles", "loadTourists", "loadTouristsSessions",
                            "loadAlerts"}
           /\ last'.err /\ last'.id = c) =>
              /\ Shown(c)' = Shown(c)
              /\ \A p \in app[c].pending \ app'[c].pending :
                    app[c].view \in Pages => Shown(c)' = p.seen]_vars

\* C18: after an update of a profiles or tourist_sessions row, the row's
\* updated_at is the time of the update, whatever updated_at the request supplied;
\* an update of an emergency_alerts row sets the columns of the request and nothing
\* else.
C18_UpdatedAtIsUpdateTime ==
    [][/\ (last'.op = "update_session" /\ last'.rows = 1) =>
            \A r \in sessions' : r.id = last'.id => r.updated_at = now'
       /\ (last'.op = "update_profile" /\ last'.rows = 1) =>
            \A r \in profiles' : r.user_id = last'.id => r.updated_at = now'
       /\ (last'.op = "update_alert" /\ last'.rows = 1) =>
            \A a \in alerts : a.id = last'.id =>
                ApplyPatch(a, AlertPatch(last'.arg, last'.caller)) \in alerts']_vars

\* a session created earlier has been updated by a request that supplied its own
\* updated_at, and carries the time of the update
C18_Witness ==
    /\ last.op = "update_session" /\ last.arg = "postdate" /\ last.rows = 1
    /\ \E r \in sessions : r.id = last.id /\ r.created_at < now /\ r.updated_at = now

\* C19: a stopTracking step removes and adds no tourist_sessions row; when it
\* succeeds the session it held is still there, with is_active false, end_time set
\* and safety_status safe; when it fails isTracking, session and safetyStatus of the
\* tab, and the table, stay as they were.
C19_StopKeepsRow ==
    [][\A c \in Clients : \A p \in Pending(c, "stopTracking") : \A ok \in BOOLEAN :
          StopTracking(c, p, ok) =>
              /\ {r.id : r \in sessions'} = {r.id : r \in sessions}
              /\ Cardinality(sessions') = Cardinality(sessions)
              /\ IF ~last'.err
                 THEN \A r \in sessions : r.id = p.sid =>
                          \E t \in sessions' : /\ t.id = r.id
                                                /\ ~t.is_active
                                                /\ t.end_time # NULL
                                                /\ t.safety_status = "safe"
                 ELSE /\ sessions' = sessions
                      /\ app'[c].isTracking = app[c].isTracking
                      /\ app'[c].session = app[c].session
                      /\ app'[c].safetyStatus = app[c].safetyStatus]_vars

\* a tourist has stopped tracking: the row is there, inactive and ended, and the
\* tab no longer tracks
C19_Witness ==
    /\ last.op = "stopTracking" /\ ~last.err /\ last.rows = 1
    /\ \E r \in sessions : /\ r.id = last.id /\ r.user_id = last.caller
                             /\ ~r.is_active /\ r.end_time # NULL
    /\ \E c \in Clients : app[c].user = last.caller /\ ~app[c].isTracking
                                                    /\ app[c].session = NULL

\* C20: a delete of an auth user either succeeds, and then the user is gone, no
\* profiles, tourist_sessions or emergency_alerts row with that user_id remains,
\* the rows of the other users are as they were and no alert names the user as
\* resolved_by; or it fails, the user being resolved_by of an alert owned by
\* someone else, and the users and the three tables are unchanged.
C20_DeleteUserAtomic ==
    [][last'.op = "delete_user" =>
          LET id == last'.id
          IN  IF last'.err
              THEN /\ \E a \in alerts : a.resolved_by = id /\ a.user_id # id
                   /\ UNCHANGED <<authUsers, profiles, sessions, alerts>>
              ELSE /\ id \notin authUsers'
                   /\ profiles' = {p \in profiles : p.user_id # id}
                   /\ sessions' = {r \in sessions : r.user_id # id}
                   /\ alerts' = {a \in alerts : a.user_id # id}
                   /\ \A a \in alerts' : a.resolved_by # id]_vars

\* the delete of a user who resolved another user's alert has failed, and the
\* user's own rows are still there
C20_Witness ==
    /\ last.op = "delete_user" /\ last.err
    /\ last.id \in authUsers
    /\ \E p \in profiles : p.user_id = last.id
    /\ \E a \in alerts : a.resolved_by = last.id /\ a.user_id # last.id

\* C21: when an admin or a police officer confirms the emergency response and
\* both requests of handleEmergencyResponse are served, the first sets every
\* active session of the alert's owner to safe and the second sets the alert to
\* resolved with resolved_by the caller, before the success toast is shown.
C21_RespondBothEffects ==
    [][\A c \in Clients : \A p \in app[c].pending :
          /\ (ModalSession(c, p, TRUE) /\ app[c].role \in {"admin", "police"})
                 => \A s \in sessions :
                        (s.user_id = p.owner /\ s.is_active)
                            => \E t \in sessions' : t.id = s.id /\ t.safety_status = "safe"
          /\ (ModalAlert(c, p, TRUE) /\ app[c].role \in {"admin", "police"})
                 => /\ toast'.title = "Emergency Response Completed"
                    /\ \A a \in alerts' :
                           a.id = p.aid => /\ a.status = "resolved"
                                           /\ a.resolved_by = app[c].user]_vars

C23_NoPrivilegeEscalation ==
    [][\A u \in UserIds :
          (get_user_role(u) = "tourist" /\ last'.caller = u)
              => /\ get_user_role(u)' = "tourist"
                 /\ \A a \in SelectAlerts(u)' : a.user_id = u
                 /\ \A r \in SelectSessions(u)' : r.user_id = u
                 /\ \A q \in SelectProfiles(u)' : q.user_id = u]_vars

\* C24: once the panic button has set safetyStatus to danger, the answer to the
\* last_ping update of an interval callback leaves it danger, whichever of the
\* two was started first.
C24_DangerSurvivesPing ==
    [][\A c \in Clients : \A p \in app[c].pending :
          (app[c].safetyStatus = "danger"
           /\ \E ok \in BOOLEAN, z \in {"safe", "warning"} : Ping(c, p, ok, z))
              => app'[c].safetyStatus = "danger"]_vars

\* C25: after a panic press whose alert insert failed, the panic button of that
\* tab becomes enabled again (safetyStatus leaves danger) without a click of the
\* user.
C25_FailedPanicReenables ==
    (last.op = "panicInsert" /\ last.err)
        ~> (\A c \in FirstTab : app[c].safetyStatus # "danger")

\* C26: a resolved alert keeps the resolved_at and the resolved_by of its first
\* resolution: no later resolve request, from AlertCenter or from EmergencyModal,
\* overwrites them.
C26_FirstResolutionKept ==
    [][\A a \in alerts :
          a.status = "resolved"
              => \A b \in alerts' :
                     b.id = a.id => /\ b.resolved_at = a.resolved_at
                                    /\ b.resolved_by = a.resolved_by]_vars

\* C27: in AlertCenter, when an answered loadAlerts leaves no load in flight, the
\* list displayed is the result for the filter now selected (every alert in it
\* has the selected status unless the filter is all); and loading is false only
\* when no load is in flight.
C27_FilterRace ==
    [][\A c \in Clients :
          /\ \A p \in app[c].pending :
                 (LoadAlerts(c, p, TRUE) /\ Pending(c, "loadAlerts")' = {}
                                         /\ Pending(c, "resolve")' = {})
                     => \A a \in app'[c].alertList :
                            \/ app'[c].selectedStatus = "all"
                            \/ a.status = app'[c].selectedStatus
          /\ (app'[c].view = "AlertCenter" /\ ~app'[c].loading)
                 => Pending(c, "loadAlerts")' = {}]_vars

\* C28: an alert has status resolved if and only if its resolved_at and its
\* resolved_by are both set, and the alert that a panic press has just inserted
\* is active with both unset.
C28_ResolvedIffStamped ==
    /\ \A a \in alerts :
           (a.status = "resolved") <=> (a.resolved_at # NULL /\ a.resolved_by # NULL)
    /\ (last.op = "panicInsert" /\ ~last.err)
           => \E a \in alerts : /\ a.id = last.id
                                /\ a.status = "active"
                                /\ a.resolved_at = NULL
                                /\ a.resolved_by = NULL

\* one alert has just been resolved from the dashboard while another, raised by a
\* second panic press, is still active
C28_Witness ==
    /\ last.op \in {"resolve", "modalAlert"} /\ ~last.err /\ last.rows = 1
    /\ \E a, b \in alerts :
           /\ a.id = last.id /\ a.status = "resolved" /\ a.resolved_by = last.caller
           /\ b.status = "active" /\ b.resolved_at = NULL

\* C29: when the sign-up form is submitted and the account is created, the
\* profile row of the new user holds the phone, emergency contact name, emergency
\* contact phone and country that were entered, and null for each one left empty.
C29_FormFieldsStored ==
    [][\A id \in UserIds : \A data \in AuthFormData :
          (SubmitSignUp(id, data) /\ ~last'.err)
              => \E q \in profiles' :
                     /\ q.user_id = id
                     /\ \A k \in {"phone", "emergency_contact_name",
                                  "emergency_contact_phone", "country"} :
                            q[k] = IF data[k] # "" THEN data[k] ELSE TNULL]_vars

====
